---- MODULE Spec2Model ----
(***************************************************************************)
(* Model of mistk_test_harness/evaluator.py : perform_assessment.          *)
(*                                                                         *)
(* One evaluation run is a strictly sequential pipeline:                   *)
(*   format check -> ingest both CSV files -> reconcile by rowid ->        *)
(*   build matrices -> load catalogs -> dispatch every metric -> write.    *)
(* The file system (CSV files, catalogs) and the call arguments are the    *)
(* initial state; the body of perform_assessment is one action per stage.  *)
(*                                                                         *)
(* Conventions                                                             *)
(*   - a Python str is a sequence of one-character strings, so that        *)
(*     substring search, whitespace splitting, lexicographic comparison    *)
(*     and numeric parsing are computed and not assumed;                   *)
(*   - a DataFrame cell is <<>> (None / NaN) or <<s>> (the string s);      *)
(*   - library behaviour is that of the numpy / pandas / scikit-learn      *)
(*     generation the code is written for (np.asscalar exists, a ragged    *)
(*     list becomes a one-dimensional object array).                       *)
(***************************************************************************)
EXTENDS Integers, Sequences, FiniteSets, TLC

\* ------------------------------------------------------------------ bounds

\* rows per CSV file in the table-centred input families
MaxRows == 2
\* entries of the default metric list in the dispatch-centred input family
MaxMetrics == 2
\* length of a numeric array returned by a metric
MaxArrayLen == 3

\* ----------------------------------------------------------------- strings

Range(s) == {s[i] : i \in 1..Len(s)}

\* code point of the characters the model uses
Ord(c) ==
  CASE c = " " -> 32
    [] c = "0" -> 48
    [] c = "1" -> 49
    [] c = "2" -> 50
    [] c = "3" -> 51
    [] c = "5" -> 53
    [] c = "7" -> 55
    [] c = "a" -> 97
    [] c = "b" -> 98
    [] OTHER -> 120

Digits == {"0", "1", "2", "3", "5", "7"}

\* Python: a < b on str (lexicographic by code point, a proper prefix is less)
RECURSIVE StrLess(_, _)
StrLess(a, b) ==
  IF b = <<>> THEN FALSE
  ELSE IF a = <<>> THEN TRUE
  ELSE IF Ord(Head(a)) # Ord(Head(b)) THEN Ord(Head(a)) < Ord(Head(b))
  ELSE StrLess(Tail(a), Tail(b))

StrLeq(a, b) == a = b \/ StrLess(a, b)

\* Python: a in b on str (substring search; the empty string is in any string)
IsSubstring(a, b) ==
  \E i \in 0..(Len(b) - Len(a)) : SubSeq(b, i + 1, i + Len(a)) = a

\* Python: s.split() (split on runs of whitespace, no empty tokens)
RECURSIVE SplitFrom(_, _, _)
SplitFrom(s, cur, acc) ==
  IF s = <<>> THEN (IF cur = <<>> THEN acc ELSE Append(acc, cur))
  ELSE IF Head(s) = " "
       THEN SplitFrom(Tail(s), <<>>, IF cur = <<>> THEN acc ELSE Append(acc, cur))
       ELSE SplitFrom(Tail(s), Append(cur, Head(s)), acc)

Split(s) == SplitFrom(s, <<>>, <<>>)

\* np.float64(token) succeeds on the tokens that are digit strings
IsNumeric(tok) == tok # <<>> /\ Range(tok) \subseteq Digits

DigitValue(c) == Ord(c) - 48

\* np.float64(token): the number a digit string denotes
RECURSIVE ParseFloatFrom(_, _)
ParseFloatFrom(tok, acc) ==
  IF tok = <<>> THEN acc
  ELSE ParseFloatFrom(Tail(tok), 10 * acc + DigitValue(Head(tok)))

ParseFloat(tok) == ParseFloatFrom(tok, 0)

\* -------------------------------------------------------------- data frame

\* a missing cell (None of a short row, or np.nan of a padded column)
NaN == <<>>
Cell(s) == <<s>>
IsNull(c) == c = NaN

PredictionCols == <<"rowid", "labels", "confidence", "bounds">>
TruthCols == <<"rowid", "labels", "bounds">>

Max(S) == CHOOSE x \in S : \A y \in S : y <= x

\* number of columns pandas.DataFrame(list of lists) creates
Width(csv) == IF csv = <<>> THEN 0 ELSE Max({Len(csv[i]) : i \in 1..Len(csv)})

\* pandas.DataFrame(rows), rename of the positional columns, np.nan padding
ReadFrame(csv, possible_cols) ==
  [rows  |-> [i \in 1..Len(csv) |->
                [k \in 1..Len(possible_cols) |->
                   IF k <= Len(csv[i]) THEN Cell(csv[i][k]) ELSE NaN]],
   dtype |-> [k \in 1..Len(possible_cols) |->
                IF k <= Width(csv) THEN "object" ELSE "float64"]]

EmptyFrame == [rows |-> <<>>, dtype |-> <<>>]

ColIndex(cols, name) == CHOOSE k \in 1..Len(cols) : cols[k] = name

\* df[name] as the sequence of its cells
Column(df, cols, name) ==
  [i \in 1..Len(df.rows) |-> df.rows[i][ColIndex(cols, name)]]

Dtype(df, cols, name) == df.dtype[ColIndex(cols, name)]

\* Series.hasnans
HasNans(df, cols, name) ==
  \E i \in 1..Len(df.rows) : IsNull(df.rows[i][ColIndex(cols, name)])

RowId(row) == row[1][1]

\* -------------------------------------------------------------- reconciler

\* variant: rowids compared as the numbers they denote
IsInAsNumber(rowid, results_rows) ==
  \E i \in 1..Len(results_rows) :
     ParseFloat(RowId(results_rows[i])) = ParseFloat(rowid)

\* Series.isin: membership of the raw string among the prediction rowids
IsIn(rowid, results_rows) ==
  \E i \in 1..Len(results_rows) : RowId(results_rows[i]) = rowid

\* truth_df.loc[truth_df['rowid'].isin(results_df['rowid'])]
RECURSIVE FilterRows(_, _)
FilterRows(truth_rows, results_rows) ==
  IF truth_rows = <<>> THEN <<>>
  ELSE IF IsIn(RowId(Head(truth_rows)), results_rows)
       THEN <<Head(truth_rows)>> \o FilterRows(Tail(truth_rows), results_rows)
       ELSE FilterRows(Tail(truth_rows), results_rows)

\* the order sort_values(by='rowid') compares two keys by
KeyLeq(a, b) == StrLeq(a, b)

IsSortedByRowid(rows) ==
  \A i \in 1..Len(rows) : \A j \in 1..Len(rows) :
     i < j => KeyLeq(RowId(rows[i]), RowId(rows[j]))

RowOrders(n) ==
  {p \in [1..n -> 1..n] : \A i \in 1..n : \A j \in 1..n : p[i] = p[j] => i = j}

\* sort_values(by='rowid'): the default quicksort is not stable, so every
\* ascending arrangement of the rows is a possible result
SortValues(rows) ==
  {q \in {[i \in 1..Len(rows) |-> rows[p[i]]] : p \in RowOrders(Len(rows))} :
     IsSortedByRowid(q)}

\* ---------------------------------------------------------- matrix builder

\* a matrix row: a vector of values, or the NaN a null cell turns into
NanRow == [nan |-> TRUE, vals |-> <<>>]
MRow(v) == [nan |-> FALSE, vals |-> v]

Unbound == [bound |-> FALSE, rows |-> <<>>]
Bound(rows) == [bound |-> TRUE, rows |-> rows]

NoBinarizer == [bound |-> FALSE, classes |-> <<>>]

\* Series.str.split().values.tolist() ; Series.values for a float64 column
StrSplit(df, cols, name) ==
  LET col == Column(df, cols, name) IN
  [i \in 1..Len(col) |-> IF IsNull(col[i]) THEN NanRow ELSE MRow(Split(col[i][1]))]

Values(df, cols, name) == [i \in 1..Len(df.rows) |-> NanRow]

\* the conditional expression of lines 150-158
Tokenized(df, cols, name) ==
  IF Dtype(df, cols, name) = "object" THEN StrSplit(df, cols, name)
  ELSE Values(df, cols, name)

\* np.array(item, dtype=np.float64) of every row raises on a non-numeric token
NumericOk(rows) ==
  \A i \in 1..Len(rows) :
     rows[i].nan \/ \A j \in 1..Len(rows[i].vals) : IsNumeric(rows[i].vals[j])

ToFloatRows(rows) ==
  [i \in 1..Len(rows) |->
     IF rows[i].nan THEN NanRow
     ELSE MRow([j \in 1..Len(rows[i].vals) |-> ParseFloat(rows[i].vals[j])])]

\* shape of the array np.append makes of one operand
ArrayShape(df, cols, name) ==
  IF Dtype(df, cols, name) # "object" THEN [ndim |-> 2, width |-> 1]
  ELSE LET p == StrSplit(df, cols, name) IN
       IF Len(p) = 0 THEN [ndim |-> 1, width |-> 0]
       ELSE IF \E i \in 1..Len(p) : p[i].nan \/ Len(p[i].vals) # Len(p[1].vals)
            THEN [ndim |-> 1, width |-> 0]
            ELSE [ndim |-> 2, width |-> Len(p[1].vals)]

\* np.append(a, b, axis=0) needs equal rank and equal trailing dimension
AppendOk(a, b) == a.ndim = b.ndim /\ (a.ndim = 2 => a.width = b.width)

\* sorted(set(labels)) : MultiLabelBinarizer.classes_
RECURSIVE SortedSeq(_)
SortedSeq(S) ==
  IF S = {} THEN <<>>
  ELSE LET m == CHOOSE x \in S : \A y \in S : StrLeq(x, y)
       IN <<m>> \o SortedSeq(S \ {m})

LabelsOf(rows) == UNION {Range(rows[i].vals) : i \in 1..Len(rows)}

\* MultiLabelBinarizer.transform
Indicator(rows, classes) ==
  [i \in 1..Len(rows) |->
     MRow([j \in 1..Len(classes) |-> IF classes[j] \in Range(rows[i].vals) THEN 1 ELSE 0])]

\* the loops of lines 122-127 raise IndexError / ValueError
ConfidenceOk(label_rows, conf_rows) ==
  \A i \in 1..Len(label_rows) : \A j \in 1..Len(label_rows[i].vals) :
     /\ ~conf_rows[i].nan
     /\ j <= Len(conf_rows[i].vals)
     /\ IsNumeric(conf_rows[i].vals[j])

\* lines 120-127: confidence tokens placed at the position of their label
ConfidenceRows(label_rows, conf_rows, classes) ==
  [i \in 1..Len(label_rows) |->
     MRow([p \in 1..Len(classes) |->
        LET J == {j \in 1..Len(label_rows[i].vals) : label_rows[i].vals[j] = classes[p]}
        IN IF J = {} THEN 0 ELSE ParseFloat(conf_rows[i].vals[Max(J)])])]

IsMulti(eval_type) ==
  eval_type = "MultilabelClassification" \/ eval_type = "MulticlassClassification"

\* line 116 (and the same test in line 206)
ConfidenceUsable(results_df) == ~HasNans(results_df, PredictionCols, "confidence")

BuildFailed ==
  [raised |-> TRUE, truth |-> Unbound, results |-> Unbound, confidence |-> Unbound,
   mlb |-> NoBinarizer]

\* lines 103-127
BuildMulti(truth_df, results_df) ==
  LET pt == Tokenized(truth_df, TruthCols, "labels")
      pr == Tokenized(results_df, PredictionCols, "labels")
      fit_ok == /\ AppendOk(ArrayShape(truth_df, TruthCols, "labels"),
                            ArrayShape(results_df, PredictionCols, "labels"))
                /\ \A i \in 1..Len(pt) : ~pt[i].nan
                /\ \A i \in 1..Len(pr) : ~pr[i].nan
      classes == SortedSeq(LabelsOf(pt) \cup LabelsOf(pr))
      pc_ == Tokenized(results_df, PredictionCols, "confidence")
  IN IF ~fit_ok THEN BuildFailed
     ELSE IF ~ConfidenceUsable(results_df)
          THEN [raised |-> FALSE, truth |-> Bound(Indicator(pt, classes)),
                results |-> Bound(Indicator(pr, classes)), confidence |-> Unbound,
                mlb |-> [bound |-> TRUE, classes |-> classes]]
     ELSE IF ~ConfidenceOk(pr, pc_) THEN BuildFailed
     ELSE [raised |-> FALSE, truth |-> Bound(Indicator(pt, classes)),
           results |-> Bound(Indicator(pr, classes)),
           confidence |-> Bound(ConfidenceRows(pr, pc_, classes)),
           mlb |-> [bound |-> TRUE, classes |-> classes]]

\* lines 128-148
BuildRegression(truth_df, results_df) ==
  LET pt == Tokenized(truth_df, TruthCols, "labels")
      pr == Tokenized(results_df, PredictionCols, "labels")
      pc_ == Tokenized(results_df, PredictionCols, "confidence")
  IN IF ~(NumericOk(pt) /\ NumericOk(pr) /\ NumericOk(pc_)) THEN BuildFailed
     ELSE [raised |-> FALSE, truth |-> Bound(ToFloatRows(pt)),
           results |-> Bound(ToFloatRows(pr)), confidence |-> Bound(ToFloatRows(pc_)),
           mlb |-> NoBinarizer]

\* lines 149-158
BuildDefault(truth_df, results_df) ==
  [raised |-> FALSE,
   truth |-> Bound(Tokenized(truth_df, TruthCols, "labels")),
   results |-> Bound(Tokenized(results_df, PredictionCols, "labels")),
   confidence |-> Bound(Tokenized(results_df, PredictionCols, "confidence")),
   mlb |-> NoBinarizer]

Build(eval_type, truth_df, results_df) ==
  IF IsMulti(eval_type) THEN BuildMulti(truth_df, results_df)
  ELSE IF eval_type = "Regression" THEN BuildRegression(truth_df, results_df)
  ELSE BuildDefault(truth_df, results_df)

\* ----------------------------------------------------------- metric registry

\* a Python dict with str keys
EmptyDict == [k \in {} |-> ""]
Put(d, k, v) == [x \in (DOMAIN d) \cup {k} |-> IF x = k THEN v ELSE d[x]]

NoParameters ==
  [truth_labels |-> "", truth_bounds |-> "", prediction_labels |-> "",
   prediction_scores |-> "", prediction_bounds |-> ""]

\* metrics.json : the Metric descriptors of the catalog, keyed as line 171 keys them
Catalog ==
  [key \in {"sklearn.metrics.accuracy_score", "sklearn.metrics.f1_score",
            "mistk.metrics.detection_score", "mistk.absent.iou_score",
            "sklearn.metrics.no_such_score"} |->
     CASE key = "sklearn.metrics.accuracy_score" ->
            [package |-> "sklearn.metrics", method |-> "accuracy_score",
             default_args |-> EmptyDict,
             data_parameters |-> [NoParameters EXCEPT !.truth_labels = "y_true",
                                                      !.prediction_labels = "y_pred"]]
       [] key = "sklearn.metrics.f1_score" ->
            [package |-> "sklearn.metrics", method |-> "f1_score",
             default_args |-> Put(EmptyDict, "average", "None"),
             data_parameters |-> [NoParameters EXCEPT !.truth_labels = "y_true",
                                                      !.prediction_labels = "y_pred"]]
       [] key = "mistk.metrics.detection_score" ->
            [package |-> "mistk.metrics", method |-> "detection_score",
             default_args |-> Put(EmptyDict, "threshold", "0.5"),
             data_parameters |-> [truth_labels |-> "y_true", truth_bounds |-> "y_true_bounds",
                                  prediction_labels |-> "y_pred",
                                  prediction_scores |-> "y_score",
                                  prediction_bounds |-> "y_pred_bounds"]]
       [] key = "mistk.absent.iou_score" ->
            [package |-> "mistk.absent", method |-> "iou_score",
             default_args |-> EmptyDict,
             data_parameters |-> [NoParameters EXCEPT !.truth_bounds = "y_true",
                                                      !.prediction_bounds = "y_pred"]]
       [] OTHER ->
            [package |-> "sklearn.metrics", method |-> "no_such_score",
             default_args |-> EmptyDict,
             data_parameters |-> [NoParameters EXCEPT !.truth_labels = "y_true",
                                                      !.prediction_labels = "y_pred"]]]

MetricKeys == DOMAIN Catalog

\* a key of defaults.json that metrics.json does not describe
UnknownKey == "sklearn.metrics.unlisted_score"

\* the packages importlib.import_module finds, and the attributes they have
Importable == {"sklearn.metrics", "mistk.metrics"}
HasAttr(package, method) ==
  \/ package = "sklearn.metrics" /\ method \in {"accuracy_score", "f1_score"}
  \/ package = "mistk.metrics" /\ method = "detection_score"

\* lines 173-177: the descriptors of the default keys the catalog knows
RECURSIVE SelectMetrics(_, _)
SelectMetrics(default_keys, objects) ==
  IF default_keys = <<>> THEN <<>>
  ELSE IF Head(default_keys) \in DOMAIN objects
       THEN <<Head(default_keys)>> \o SelectMetrics(Tail(default_keys), objects)
       ELSE SelectMetrics(Tail(default_keys), objects)

\* --------------------------------------------------------------- dispatcher

\* line 196: args = metric.default_args or {}   (a non-empty dict is the
\* descriptor's own dict, not a copy)
ArgsAliased(metric) == metric.default_args # EmptyDict

\* the conditions of lines 197, 200, 203, 206 and 209
BindsTruthLabels(metric, t_df) == metric.data_parameters.truth_labels # ""

\* variant: the bounds of the ground truth bound without the hasnans test
BindsTruthBoundsUnchecked(metric, t_df) == metric.data_parameters.truth_bounds # ""

BindsTruthBounds(metric, t_df) ==
  metric.data_parameters.truth_bounds # "" /\ ~HasNans(t_df, TruthCols, "bounds")

BindsPredictionLabels(metric, r_df) == metric.data_parameters.prediction_labels # ""

\* variant: the confidence matrix bound without the hasnans test
BindsPredictionScoresUnchecked(metric, r_df) ==
  metric.data_parameters.prediction_scores # ""

BindsPredictionScores(metric, r_df) ==
  metric.data_parameters.prediction_scores # "" /\ ConfidenceUsable(r_df)

BindsPredictionBounds(metric, r_df) ==
  metric.data_parameters.prediction_bounds # "" /\ ~HasNans(r_df, PredictionCols, "bounds")

\* lines 196-210: the keyword arguments; each value names the object bound
BuildArgs(metric, t_df, r_df) ==
  LET dp == metric.data_parameters
      a0 == metric.default_args
      a1 == IF BindsTruthLabels(metric, t_df)
            THEN Put(a0, dp.truth_labels, "truth_labels_matrix") ELSE a0
      a2 == IF BindsTruthBounds(metric, t_df)
            THEN Put(a1, dp.truth_bounds, "truth_df.bounds") ELSE a1
      a3 == IF BindsPredictionLabels(metric, r_df)
            THEN Put(a2, dp.prediction_labels, "results_labels_matrix") ELSE a2
      a4 == IF BindsPredictionScores(metric, r_df)
            THEN Put(a3, dp.prediction_scores, "confidence_matrix") ELSE a3
      a5 == IF BindsPredictionBounds(metric, r_df)
            THEN Put(a4, dp.prediction_bounds, "results_df.bounds") ELSE a4
  IN [before_scores |-> a3, args |-> a5]

\* ------------------------------------------------------- result normalizer

ArrayOf(n) == [i \in 1..n |-> 10 * i]

\* what method(**args) does: raise, or return one of the result kinds
Outcomes ==
  {[kind |-> "raise", val |-> <<>>], [kind |-> "generic", val |-> <<7>>],
   [kind |-> "tuple", val |-> <<3, 4>>], [kind |-> "native", val |-> <<9>>]}
  \cup {[kind |-> "ndarray", val |-> ArrayOf(n)] : n \in 1..MaxArrayLen}

\* str(label) of a label that is a str
Str(label) == label

\* variant: an array at least as long as the vocabulary is remapped too
LabelsMatchAtLeast(result_list, label_classes) ==
  Len(result_list) >= Len(label_classes)

\* lines 224-230
LabelsMatch(result_list, label_classes) == Len(result_list) = Len(label_classes)

\* lines 225-227: later positions overwrite earlier ones with the same key
AsDict(result_list, label_classes) ==
  [k \in {Str(label_classes[i]) : i \in 1..Len(label_classes)} |->
     result_list[Max({i \in 1..Len(label_classes) : Str(label_classes[i]) = k})]]

\* the JSON-safe shapes: a label -> value mapping, a list, a number
AsMapping(m) == [shape |-> "mapping", mapping |-> m, list |-> <<>>, scalar |-> 0]
AsList(l) == [shape |-> "list", mapping |-> EmptyDict, list |-> l, scalar |-> 0]
AsScalar(x) == [shape |-> "scalar", mapping |-> EmptyDict, list |-> <<>>, scalar |-> x]

\* lines 218-242
Normalize(outcome, eval_type, mlb) ==
  IF outcome.kind = "ndarray"
  THEN IF IsMulti(eval_type) /\ LabelsMatch(outcome.val, mlb.classes)
       THEN AsMapping(AsDict(outcome.val, mlb.classes))
       ELSE AsList(outcome.val)
  ELSE IF outcome.kind = "generic" THEN AsScalar(outcome.val[1])
  ELSE IF outcome.kind = "tuple" THEN AsList(outcome.val)
  ELSE AsScalar(outcome.val[1])

\* ---------------------------------------------------- inputs of one run

SeqsUpTo(S, n) == UNION {[1..k -> S] : k \in 0..n}

File(rows) == [exists |-> TRUE, rows |-> rows]
MissingFile == [exists |-> FALSE, rows |-> <<>>]
Defaults(keys) == [exists |-> TRUE, default_metrics |-> keys]
MissingDefaults == [exists |-> FALSE, default_metrics |-> <<>>]

Run(type, format, predictions, truth, defaults) ==
  [eval_type |-> type, eval_input_format |-> format, predictions |-> predictions,
   ground_truth |-> truth, defaults |-> defaults]

FormatPredictions == <<"p", "r", "e", "d", "i", "c", "t", "i", "o", "n", "s">>
Formats ==
  {FormatPredictions, <<"j", "s", "o", "n">>, <<"p", "r", "e", "d">>, <<"p">>, <<>>}

EvalTypes ==
  {"BinaryClassification", "MultilabelClassification", "MulticlassClassification",
   "Regression"}

\* predictions.csv / ground_truth.csv with word labels, two labels in one row
WordPredictions ==
  <<  <<  <<"2">>, <<"a", " ", "b">>, <<"5", " ", "7">>  >>,
      <<  <<"1">>, <<"a">>, <<"7">>  >>  >>
WordTruth ==
  <<  <<  <<"1">>, <<"a", " ", "b">>  >>,
      <<  <<"2">>, <<"b">>  >>  >>

\* every call format, and the missing files, on one fixed data set
EntryRuns ==
  {Run("BinaryClassification", f, File(WordPredictions), File(WordTruth),
       Defaults(<<"sklearn.metrics.accuracy_score">>)) : f \in Formats}
  \cup {Run("BinaryClassification", FormatPredictions, MissingFile, File(WordTruth),
            Defaults(<<>>)),
        Run("BinaryClassification", FormatPredictions, File(WordPredictions), MissingFile,
            Defaults(<<>>)),
        Run("BinaryClassification", FormatPredictions, File(WordPredictions),
            File(WordTruth), MissingDefaults)}

\* every default metric list up to MaxMetrics, for every evaluation type
DispatchRuns ==
  {Run(t, FormatPredictions, File(WordPredictions), File(WordTruth), Defaults(keys)) :
     t \in EvalTypes, keys \in SeqsUpTo(MetricKeys, MaxMetrics)}

\* every pair of tables up to MaxRows over rowids whose string order and
\* numeric order differ, ground-truth rows of one rowid told apart by their
\* label; the default list names only a key the catalog does not hold
RowIds == {<<"2">>, <<"1", "0">>, <<"0", "1", "0">>}
RowLabels == {<<"0">>, <<"1">>}
RowidRuns ==
  {Run("MulticlassClassification", FormatPredictions, File(p), File(g),
       Defaults(<<UnknownKey>>)) :
     p \in SeqsUpTo({<<id, <<"1">>, <<"5">> >> : id \in RowIds}, MaxRows),
     g \in SeqsUpTo({<<id, l>> : id \in RowIds, l \in RowLabels}, MaxRows)}

\* every pair of tables up to MaxRows whose rows stop after any column, row i
\* carrying the rowid i; a prediction row may also hold an empty confidence
\* field (a str, not a null); a file that has rows has a labels column
PositionRowIds == <<  <<"1">>, <<"2">>, <<"3">>, <<"5">>  >>
FullPredictionRows ==
  [i \in 1..Len(PositionRowIds) |-> <<PositionRowIds[i], <<"1">>, <<"7">>, <<"0", " ", "3">> >>]
FullTruthRows ==
  [i \in 1..Len(PositionRowIds) |-> <<PositionRowIds[i], <<"1">>, <<"0", " ", "2">> >>]
PredictionRowChoices ==
  [i \in 1..Len(PositionRowIds) |->
     {SubSeq(FullPredictionRows[i], 1, l) : l \in 1..4}
        \cup {[FullPredictionRows[i] EXCEPT ![3] = <<>>]}]
TruthRowChoices ==
  [i \in 1..Len(PositionRowIds) |-> {SubSeq(FullTruthRows[i], 1, l) : l \in 1..3}]
TablesOf(choices) ==
  {rows \in UNION {[1..n -> UNION {choices[i] : i \in 1..n}] : n \in 0..MaxRows} :
     /\ \A i \in 1..Len(rows) : rows[i] \in choices[i]
     /\ rows # <<>> => Width(rows) >= 2}
NullRuns ==
  {Run(t, FormatPredictions, File(p), File(g),
       Defaults(<<"mistk.metrics.detection_score">>)) :
     t \in EvalTypes,
     p \in TablesOf(PredictionRowChoices), g \in TablesOf(TruthRowChoices)}

Runs == EntryRuns \cup DispatchRuns \cup RowidRuns \cup NullRuns

\* ------------------------------------------------------------------- state

VARIABLES
  eval_type, eval_input_format,      \* arguments of perform_assessment
  predictions_file, ground_truth_file, defaults_file,   \* the files it reads
  pc,                        \* the stage perform_assessment is at
  error,                     \* the exception that left perform_assessment, or ""
  opened,                    \* an input file has been opened
  results_df, truth_df,
  truth_labels_matrix, results_labels_matrix, confidence_matrix, label_mlb,
  metric_objects, metrics_list, modules_cache, counter, eval_dict,
  calls,                     \* history: every method(**args) made, with its outcome
  report                     \* the eval_results_<time>.json file

inputs ==
  <<eval_type, eval_input_format, predictions_file, ground_truth_file, defaults_file>>
frames == <<results_df, truth_df>>
matrices == <<truth_labels_matrix, results_labels_matrix, confidence_matrix, label_mlb>>
registry == <<metric_objects, metrics_list>>
dispatch == <<modules_cache, counter, eval_dict, calls>>
vars == <<inputs, pc, error, opened, frames, matrices, registry, dispatch, report>>

NoReport == [exists |-> FALSE, content |-> EmptyDict]

Init ==
  /\ \E r \in Runs :
       /\ eval_type = r.eval_type
       /\ eval_input_format = r.eval_input_format
       /\ predictions_file = r.predictions
       /\ ground_truth_file = r.ground_truth
       /\ defaults_file = r.defaults
  /\ pc = "start"
  /\ error = ""
  /\ opened = FALSE
  /\ results_df = EmptyFrame
  /\ truth_df = EmptyFrame
  /\ truth_labels_matrix = Unbound
  /\ results_labels_matrix = Unbound
  /\ confidence_matrix = Unbound
  /\ label_mlb = NoBinarizer
  /\ metric_objects = EmptyDict
  /\ metrics_list = <<>>
  /\ modules_cache = {}
  /\ counter = 0
  /\ eval_dict = EmptyDict
  /\ calls = <<>>
  /\ report = NoReport

Raise(exception) == pc' = "raised" /\ error' = exception

\* lines 44-47
Unsupported(format) == ~IsSubstring(format, FormatPredictions)

CheckFormat ==
  /\ pc = "start"
  /\ IF Unsupported(eval_input_format)
     THEN Raise("Exception")
     ELSE pc' = "ingest" /\ error' = error
  /\ UNCHANGED <<inputs, opened, frames, matrices, registry, dispatch, report>>

\* lines 48-94 (results_csv / truth_csv are the data rows, the header skipped)
Ingest ==
  /\ pc = "ingest"
  /\ opened' = TRUE
  /\ IF ~predictions_file.exists
     THEN Raise("FileNotFoundError") /\ UNCHANGED frames
     ELSE /\ results_df' = ReadFrame(predictions_file.rows, PredictionCols)
          /\ IF ~ground_truth_file.exists
             THEN Raise("FileNotFoundError") /\ UNCHANGED truth_df
             ELSE /\ truth_df' = ReadFrame(ground_truth_file.rows, TruthCols)
                  /\ pc' = "reconcile" /\ error' = error
  /\ UNCHANGED <<inputs, matrices, registry, dispatch, report>>

\* lines 96-101
Reconcile ==
  /\ pc = "reconcile"
  /\ \E r \in SortValues(results_df.rows) :
     \E t \in SortValues(FilterRows(truth_df.rows, results_df.rows)) :
        /\ results_df' = [results_df EXCEPT !.rows = r]
        /\ truth_df' = [truth_df EXCEPT !.rows = t]
  /\ pc' = "build"
  /\ UNCHANGED <<inputs, error, opened, matrices, registry, dispatch, report>>

\* lines 103-158
BuildMatrices ==
  /\ pc = "build"
  /\ LET b == Build(eval_type, truth_df, results_df) IN
     IF b.raised
     THEN Raise("ValueError") /\ UNCHANGED matrices
     ELSE /\ truth_labels_matrix' = b.truth
          /\ results_labels_matrix' = b.results
          /\ confidence_matrix' = b.confidence
          /\ label_mlb' = b.mlb
          /\ pc' = "config" /\ error' = error
  /\ UNCHANGED <<inputs, opened, frames, registry, dispatch, report>>

\* lines 160-177
LoadCatalogs ==
  /\ pc = "config"
  /\ IF ~defaults_file.exists
     THEN Raise("FileNotFoundError") /\ UNCHANGED registry
     ELSE /\ metric_objects' = Catalog
          /\ metrics_list' = SelectMetrics(defaults_file.default_metrics, Catalog)
          /\ pc' = "dispatch" /\ error' = error
  /\ UNCHANGED <<inputs, opened, frames, matrices, dispatch, report>>

\* lines 179-246: one iteration of the loop over metrics_list
DispatchMetric ==
  /\ pc = "dispatch"
  /\ counter < Len(metrics_list)
  /\ LET key == metrics_list[counter + 1]
         metric == metric_objects[key]
         built == BuildArgs(metric, truth_df, results_df)
     IN
     IF metric.package \notin modules_cache /\ metric.package \notin Importable
     THEN \* importlib.import_module raises; nothing catches it
          /\ Raise("ImportError")
          /\ UNCHANGED <<registry, dispatch>>
     ELSE
       /\ modules_cache' = modules_cache \cup {metric.package}
       /\ metrics_list' = metrics_list
       /\ IF ~HasAttr(metric.package, metric.method)
          THEN /\ counter' = counter + 1
               /\ UNCHANGED <<pc, error, metric_objects, eval_dict, calls>>
          ELSE IF BindsPredictionScores(metric, results_df) /\ ~confidence_matrix.bound
          THEN \* line 207 reads a name that was never assigned
               /\ Raise("NameError")
               /\ metric_objects' =
                    IF ArgsAliased(metric)
                    THEN [metric_objects EXCEPT ![key].default_args = built.before_scores]
                    ELSE metric_objects
               /\ UNCHANGED <<counter, eval_dict, calls>>
          ELSE \E outcome \in Outcomes :
               /\ calls' = Append(calls, [index |-> counter + 1, key |-> key,
                                          method |-> metric.method, args |-> built.args,
                                          outcome |-> outcome])
               /\ metric_objects' =
                    IF ArgsAliased(metric)
                    THEN [metric_objects EXCEPT ![key].default_args = built.args]
                    ELSE metric_objects
               /\ eval_dict' =
                    IF outcome.kind = "raise" THEN eval_dict
                    ELSE Put(eval_dict, metric.method,
                             Normalize(outcome, eval_type, label_mlb))
               /\ counter' = counter + 1
               /\ UNCHANGED <<pc, error>>
  /\ UNCHANGED <<inputs, opened, frames, matrices, report>>

\* lines 248-252
WriteReport ==
  /\ pc = "dispatch"
  /\ counter = Len(metrics_list)
  /\ report' = [exists |-> TRUE, content |-> eval_dict]
  /\ pc' = "done"
  /\ UNCHANGED <<inputs, error, opened, frames, matrices, registry, dispatch>>

Next ==
  \/ CheckFormat
  \/ Ingest
  \/ Reconcile
  \/ BuildMatrices
  \/ LoadCatalogs
  \/ DispatchMetric
  \/ WriteReport

Spec == Init /\ [][Next]_vars

\* ------------------------------------------------------------ properties

AfterReconcile == pc \in {"build", "config", "dispatch", "done"}
CallIndexes == 1..Len(calls)
Succeeded(i) == calls[i].outcome.kind # "raise"
InvocationRaised == \E i \in CallIndexes : ~Succeeded(i)

\* the argument values of call i that hold the object named tag
Passes(i, tag) == \E n \in DOMAIN calls[i].args : calls[i].args[n] = tag

\* C1: a format other than the exact string "predictions" raises at once:
\* no input file is opened and no report is written.
C1_UnsupportedFormatRaises ==
  (pc # "start" /\ eval_input_format # FormatPredictions)
     => (pc = "raised" /\ error = "Exception" /\ ~opened /\ ~report.exists)

\* C2: once the invocation of a metric has raised, no exception leaves
\* perform_assessment, and the report holds an entry for every metric whose
\* invocation succeeded and none that comes from a failed invocation.
C2_PartialFailureContained ==
  InvocationRaised =>
     /\ pc # "raised"
     /\ pc = "done" =>
          /\ report.exists
          /\ \A i \in CallIndexes :
                Succeeded(i) => calls[i].method \in DOMAIN report.content
          /\ \A i \in CallIndexes :
                (~Succeeded(i) /\ calls[i].method \in DOMAIN report.content)
                   => \E j \in CallIndexes :
                         Succeeded(j) /\ calls[j].method = calls[i].method

\* C3: a metric whose package cannot be imported is skipped: the import error
\* does not leave perform_assessment, and the finished run has written a
\* report without that metric's key.
C3_UnresolvablePackageSkipped ==
  /\ error # "ImportError"
  /\ pc = "done" =>
       /\ report.exists
       /\ \A i \in 1..Len(metrics_list) :
             metric_objects[metrics_list[i]].package \notin Importable
                => metric_objects[metrics_list[i]].method \notin DOMAIN report.content

\* C4: once both files are ingested and both catalogs are loaded, no exception
\* ends the run, so the report is written.
C4_ReportAlwaysWritten ==
  (DOMAIN metric_objects # {}) => pc # "raised"

\* C9: the default_args of every descriptor stay what the catalog holds.
C9_DescriptorUnchanged ==
  \A k \in DOMAIN metric_objects :
     metric_objects[k].default_args = Catalog[k].default_args

UniqueRowids(csv) ==
  \A i \in 1..Len(csv) : \A j \in 1..Len(csv) : csv[i][1] = csv[j][1] => i = j

\* C10: with rowids unique in each file, the reconciled tables have the same
\* number of rows and row i of both carries the same rowid.
C10_RowsAligned ==
  (AfterReconcile /\ UniqueRowids(predictions_file.rows)
                  /\ UniqueRowids(ground_truth_file.rows))
     => /\ Len(truth_df.rows) = Len(results_df.rows)
        /\ \A i \in 1..Len(truth_df.rows) :
              RowId(truth_df.rows[i]) = RowId(results_df.rows[i])

\* the tables as ingested, before reconciliation
IngestedPredictions == ReadFrame(predictions_file.rows, PredictionCols).rows
IngestedTruth == ReadFrame(ground_truth_file.rows, TruthCols).rows

Count(rows, r) == Cardinality({i \in 1..Len(rows) : rows[i] = r})
Ascending(rows) ==
  \A i \in 1..Len(rows) : \A j \in 1..Len(rows) :
     i < j => StrLeq(RowId(rows[i]), RowId(rows[j]))

\* C5: the reconciled ground truth holds exactly the rows of G whose rowid,
\* as a raw string, is the rowid of a row of P (each as often as G holds it),
\* the prediction table holds exactly the rows of P, and both are in
\* ascending string order of rowid.
C5_Reconciliation ==
  AfterReconcile =>
     /\ \A r \in Range(IngestedTruth) \cup Range(truth_df.rows) :
           Count(truth_df.rows, r) =
              IF \E i \in 1..Len(IngestedPredictions) :
                    IngestedPredictions[i][1] = r[1]
              THEN Count(IngestedTruth, r) ELSE 0
     /\ \A r \in Range(IngestedPredictions) \cup Range(results_df.rows) :
           Count(results_df.rows, r) = Count(IngestedPredictions, r)
     /\ Ascending(truth_df.rows)
     /\ Ascending(results_df.rows)

\* C5 happens: a ground-truth row is dropped, another is kept, and the sort
\* has moved the prediction rows
C5_Witness ==
  /\ pc = "build"
  /\ Len(truth_df.rows) >= 1
  /\ Len(truth_df.rows) < Len(IngestedTruth)
  /\ results_df.rows # IngestedPredictions

ConfidenceMissing == HasNans(results_df, PredictionCols, "confidence")

\* C6: when a prediction row lacks a confidence value, no call receives the
\* confidence matrix, under every evaluation type; in the multilabel and
\* multiclass path the matrix is then not built and never read.
C6_ConfidenceAllOrNothing ==
  (pc \notin {"start", "ingest"} /\ ConfidenceMissing) =>
     /\ \A i \in CallIndexes : ~Passes(i, "confidence_matrix")
     /\ error # "NameError"
     /\ IsMulti(eval_type) => ~confidence_matrix.bound

\* C6 happens: one row has a confidence and one has none, in the multilabel
\* path, and a metric that names prediction_scores has been called
C6_Witness ==
  /\ eval_type = "MultilabelClassification"
  /\ \E i \in 1..Len(results_df.rows) : IsNull(results_df.rows[i][3])
  /\ \E i \in 1..Len(results_df.rows) : ~IsNull(results_df.rows[i][3])
  /\ \E i \in CallIndexes :
        Catalog[calls[i].key].data_parameters.prediction_scores # ""

LastCall == calls[Len(calls)]

\* C7: a numeric array whose length is the size of the fitted vocabulary is
\* reported as a mapping with one key per vocabulary label, holding the value
\* at the label's position; any other numeric array is reported as the same
\* sequence.
C7_ArrayNormalization ==
  (calls # <<>> /\ LastCall.outcome.kind = "ndarray") =>
     LET array == LastCall.outcome.val
         emitted == eval_dict[LastCall.method]
         classes == label_mlb.classes
     IN IF label_mlb.bound /\ Len(array) = Len(classes)
        THEN /\ emitted.shape = "mapping"
             /\ DOMAIN emitted.mapping = Range(classes)
             /\ \A i \in 1..Len(classes) : emitted.mapping[classes[i]] = array[i]
        ELSE /\ emitted.shape = "list"
             /\ emitted.list = array

\* C7 happens: an array as long as a vocabulary of two labels was returned
C7_Witness ==
  /\ calls # <<>>
  /\ LastCall.outcome.kind = "ndarray"
  /\ label_mlb.bound
  /\ Len(label_mlb.classes) = 2
  /\ Len(LastCall.outcome.val) = 2

\* the column a bound object is made of has no null
SourceFull(tag) ==
  CASE tag = "truth_labels_matrix" -> ~HasNans(truth_df, TruthCols, "labels")
    [] tag = "truth_df.bounds" -> ~HasNans(truth_df, TruthCols, "bounds")
    [] tag = "results_labels_matrix" -> ~HasNans(results_df, PredictionCols, "labels")
    [] tag = "confidence_matrix" -> ~HasNans(results_df, PredictionCols, "confidence")
    [] OTHER -> ~HasNans(results_df, PredictionCols, "bounds")

DataTags ==
  {"truth_labels_matrix", "truth_df.bounds", "results_labels_matrix",
   "confidence_matrix", "results_df.bounds"}

====
